---- MODULE Spec2Model ----
(***************************************************************************)
(* A model of pymcwrapper: the MCServerWrapper event dispatcher, its       *)
(* process supervision (start_server / stop_server / _write_server), the   *)
(* console reader, the CommandSequenceJob timer threads and the directory  *)
(* observers, as concurrent threads taking one step at a time.             *)
(*                                                                         *)
(* Text is a sequence of tokens: a token is a word, a blank " " or the     *)
(* line terminator "\n"; the string it stands for is the concatenation.    *)
(***************************************************************************)
EXTENDS Integers, Sequences, FiniteSets, TLC

\* ------------------------------------------------------------------ bounds
\* console lines the operator types in one run
MaxInputs == 1
\* firings of the job in one run of the configuration with a job and an observer
MaxFirings == 1
\* firings of the job in one run of the configurations with a job alone
MaxCycleFirings == 4
\* file notifications of one observer in one run
MaxFileEvents == 1
\* calls made by a thread outside the wrapper (exit(), send()) in one run
MaxApiCalls == 1

\* children spawned in one run: the one of start() and one per console line
MaxSpawns == MaxInputs + 1

\* console lines typed in one run of the configuration that follows the reader
MaxReaderLines == MaxInputs + 1

\* ------------------------------------------------------------- text helpers
NL == "\n"
SP == " "

IsBlank(tok) == tok = SP \/ tok = NL

RECURSIVE LStrip(_)
\* str.lstrip(): drop the leading whitespace
LStrip(s) == IF s # <<>> /\ IsBlank(Head(s)) THEN LStrip(Tail(s)) ELSE s

RECURSIVE RStrip(_)
\* str.rstrip(): drop the trailing whitespace
RStrip(s) ==
    IF s # <<>> /\ IsBlank(s[Len(s)]) THEN RStrip(SubSeq(s, 1, Len(s) - 1)) ELSE s

\* str.strip()
Strip(s) == LStrip(RStrip(s))

RECURSIVE FirstWord(_)
\* the tokens of s up to its first whitespace
FirstWord(s) ==
    IF s = <<>> \/ IsBlank(Head(s)) THEN <<>> ELSE <<Head(s)>> \o FirstWord(Tail(s))

\* line.split(maxsplit=1): <<>>, <<first>> or <<first, rest>>
Split1(s) ==
    LET t == LStrip(s)
        w == FirstWord(t)
        r == LStrip(SubSeq(t, Len(w) + 1, Len(t)))
    IN  IF t = <<>> THEN <<>>
        ELSE IF r = <<>> THEN <<w>>
        ELSE <<w, r>>

RECURSIVE JoinLines(_)
\* '\n'.join(commands)
JoinLines(cmds) ==
    IF cmds = <<>> THEN <<>>
    ELSE IF Len(cmds) = 1 THEN Head(cmds)
    ELSE Head(cmds) \o <<NL>> \o JoinLines(Tail(cmds))

\* ------------------------------------------------------------ configuration
\* MCServerWrapper.EXIT_TOKENS
EXIT_TOKENS == {<<"exit">>, <<"x">>}

\* the keys of MCServerWrapper._cmd_map
CmdNames == {<<"start">>, <<"restart">>, <<"echo">>, <<"send">>, <<">">>, <<"load">>, <<"run">>}

\* the lines an operator may type (input() returns them without the newline)
ConsoleLines ==
    { <<SP, "x", SP>>, <<"start">>, <<"restart">>, <<"stop">>, <<"say", SP, "hi">>, <<>> }

\* the command groups a job may be configured with: a sequence of groups, each
\* a sequence of commands
GroupChoices ==
    { << << <<"a">> >> >>,
      << << <<"a">> >>, << <<"b">>, <<"c", SP, "d">> >>, << <<"e">> >> >> }

\* the configured starting index of a job (raw_job.get('index', 0))
IndexChoices == {-1, 0, 1, 4}

\* what open(path).read() may return for a watched file
FileContents == { <<"f", NL>>, <<"g">> }

\* the text of send('stop')
StopText == <<"stop", NL>>

\* ------------------------------------------------------------------- state
VARIABLES
    queue,                  \* _event_queue: the events waiting for the dispatcher
    nEnq,                   \* history: how many events were ever put on the queue
    nHandled,               \* history: how many events the dispatcher has taken
    cur,                    \* the event the dispatcher is handling
    handler,                \* the handler the dispatcher called for it
    stoppedNotices,         \* how many times 'Wrapper has stopped.' was printed
    stk,                    \* per thread: the labels it has still to run, innermost call first
    arg,                    \* per thread: the text argument of the write in progress
    idx,                    \* per thread: the position of its for loop
    reported,               \* per thread: the notices printed since its current call began
    wr,                     \* history, per thread: the stdin.write calls since then
    inputThread,            \* _input_thread: "new", "alive" or "dead"
    nRead,                  \* console lines read so far
    server_process,         \* _server_process: the child's number, 0 for None
    server_output_thread,   \* _server_output_thread: the relay's number, 0 for None
    procs,                  \* every child spawned: its state, its output stream, its input
    relay,                  \* every relay thread: "none", "alive" or "dead"
    lock,                   \* _server_input_lock is held
    jobs,                   \* _jobs: the CommandSequenceJob list
    observers,              \* _observers: the DirectoryObserver list
    apiCalls                \* calls made so far by the thread outside the wrapper

queueVars == << queue, nEnq >>
dispVars == << nHandled, cur, handler, stoppedNotices >>
callVars == << stk, arg, idx, reported, wr >>
inputVars == << inputThread, nRead >>
serverVars == << server_process, server_output_thread, procs, relay, lock >>
compVars == << jobs, observers >>

vars == << queueVars, dispVars, callVars, inputVars, serverVars, compVars, apiCalls >>

\* the threads that run wrapper methods: start()'s caller, the dispatcher
\* (_event_queue_thread) and a caller outside the wrapper
CallThreads == {"main", "disp", "api"}

NoEvent == [tag |-> "None", text |-> <<>>, by |-> "none", src |-> 0, k |-> 0, n |-> 0]

Top(t) == Head(stk[t])
\* replace the current label by the labels ls
Goto(t, ls) == [stk EXCEPT ![t] = ls \o Tail(@)]
\* the current call returns
Return(t) == [stk EXCEPT ![t] = Tail(@)]

\* _print / _print_error / _print_warning of the notice msg by thread t
Say(t, msg) == [reported EXCEPT ![t] = @ \cup {msg}]

\* CommandSequenceJob.__init__: _command_texts
CommandTexts(groups) == [i \in 1..Len(groups) |-> JoinLines(groups[i]) \o <<NL>>]

\* CommandSequenceJob.__init__, line 45: the index the job starts at
InitialIndex(index, length) == index % length

\* CommandSequenceJob.__init__: the fields of a new job; start and groups keep
\* the configuration, fired counts the firings, and budget is the number of
\* firings after which the delay outlasts the run
NewJob(index, groups, budget) ==
    [ length |-> Len(groups),
      index |-> InitialIndex(index, Len(groups)),
      texts |-> CommandTexts(groups),
      stop_event |-> FALSE,
      thread |-> "new",
      pc |-> "check",
      start |-> index,
      groups |-> groups,
      budget |-> budget,
      fired |-> 0 ]

\* DirectoryObserver.__init__
NewObserver == [thread |-> "new", stopped |-> FALSE, fired |-> 0]

\* MCServerWrapper.__init__, for a configuration with the jobs js and the observers os
InitWith(js, os) ==
    /\ queue = <<>>
    /\ nEnq = 0
    /\ nHandled = 0
    /\ cur = NoEvent
    /\ handler = "None"
    /\ stoppedNotices = 0
    /\ stk = [t \in CallThreads |->
                IF t = "main" THEN <<"ss", "m_start_input">>
                ELSE IF t = "disp" THEN <<"new">> ELSE <<"idle">>]
    /\ arg = [t \in CallThreads |-> <<>>]
    /\ idx = [t \in CallThreads |-> 1]
    /\ reported = [t \in CallThreads |-> {}]
    /\ wr = [t \in CallThreads |-> <<>>]
    /\ inputThread = "new"
    /\ nRead = 0
    /\ server_process = 0
    /\ server_output_thread = 0
    /\ procs = [p \in 1..MaxSpawns |->
                  [state |-> "none", stdout |-> "open", gotStop |-> FALSE]]
    /\ relay = [p \in 1..MaxSpawns |-> "none"]
    /\ lock = FALSE
    /\ jobs = js
    /\ observers = os
    /\ apiCalls = 0

\* a configuration with one job and one observer
Init ==
    InitWith(<<NewJob(0, << << <<"a">> >>, << <<"b">>, <<"c">> >> >>, MaxFirings)>>,
             <<NewObserver>>)

\* the default configuration: no jobs, no observers
InitCore == InitWith(<<>>, <<>>)

\* one job of any of the configurations, no observer
InitJob ==
    \E g \in GroupChoices, i \in IndexChoices :
        InitWith(<<NewJob(i, g, MaxCycleFirings)>>, <<>>)

\* --------------------------------------------------------- process supervisor
\* MCServerWrapper._is_server_running: the relay thread exists and is alive
\* (Thread.isAlive, as on the Python versions that still have it)
IsServerRunning ==
    /\ server_output_thread # 0
    /\ relay[server_output_thread] = "alive"

\* an exception leaves thread t's current call: the dispatcher's loop catches it
\* (lines 104-110) and goes on to the next event; any other thread ends with it
Unwind(t) ==
    IF t = "disp" THEN [stk EXCEPT ![t] = <<"get">>] ELSE [stk EXCEPT ![t] = <<"dead">>]
\* _loop_event_queue, line 105: 'Event resulted in an error:'
Report(t) == IF t = "disp" THEN Say(t, "HandlerError") ELSE reported

\* the children that are alive
Alive == {p \in 1..MaxSpawns : procs[p].state = "alive"}
\* the number the next child gets
NextProc == Cardinality({p \in 1..MaxSpawns : procs[p].state # "none"}) + 1

\* a start_server without the running check
StartServerUnchecked(t) ==
    /\ Top(t) = "ss"
    /\ NextProc <= MaxSpawns
    /\ procs' = [procs EXCEPT ![NextProc].state = "alive"]
    /\ relay' = [relay EXCEPT ![NextProc] = "alive"]
    /\ server_process' = NextProc
    /\ server_output_thread' = NextProc
    /\ stk' = Return(t)
    /\ UNCHANGED << queueVars, dispVars, arg, idx, reported, wr, lock, inputVars, compVars,
                    apiCalls >>

\* start_server: 'Server is already running!' if it is running; else Popen, and
\* the relay thread made and started
StartServer(t) ==
    /\ Top(t) = "ss"
    /\ IF IsServerRunning
         THEN /\ reported' = Say(t, "AlreadyRunning")
              /\ UNCHANGED serverVars
         ELSE /\ NextProc <= MaxSpawns
              /\ procs' = [procs EXCEPT ![NextProc].state = "alive"]
              /\ relay' = [relay EXCEPT ![NextProc] = "alive"]
              /\ server_process' = NextProc
              /\ server_output_thread' = NextProc
              /\ UNCHANGED << reported, lock >>
    /\ stk' = Return(t)
    /\ UNCHANGED << queueVars, dispVars, arg, idx, wr, inputVars, compVars, apiCalls >>

\* _write_server, lines 133 and 139: the running check
WriteCheck(t) ==
    /\ Top(t) = "w_check"
    /\ IF IsServerRunning
         THEN /\ stk' = Goto(t, <<"w_acquire">>)
              /\ reported' = reported
         ELSE /\ stk' = Return(t)
              /\ reported' = Say(t, "NotRunning")
    /\ UNCHANGED << queueVars, dispVars, arg, idx, wr, inputVars, serverVars, compVars,
                    apiCalls >>

\* an acquire that does not wait for the lock
WriteAcquireNoWait(t) ==
    /\ Top(t) = "w_acquire"
    /\ lock' = TRUE
    /\ stk' = Goto(t, <<"w_io">>)
    /\ UNCHANGED << queueVars, dispVars, arg, idx, reported, wr, inputVars,
                    server_process, server_output_thread, procs, relay, compVars, apiCalls >>

\* _write_server, line 134: _server_input_lock.acquire() blocks while the lock is held
WriteAcquire(t) ==
    /\ Top(t) = "w_acquire"
    /\ ~lock
    /\ lock' = TRUE
    /\ stk' = Goto(t, <<"w_io">>)
    /\ UNCHANGED << queueVars, dispVars, arg, idx, reported, wr, inputVars,
                    server_process, server_output_thread, procs, relay, compVars, apiCalls >>

\* the text holds the line "stop"
HasStopLine(text) ==
    \E i \in 1..Len(text) :
        /\ text[i] = "stop"
        /\ i = 1 \/ text[i - 1] = NL
        /\ i < Len(text) /\ text[i + 1] = NL

\* _write_server, lines 135-136: stdin.write(text) puts the text in the stream's
\* buffer and stdin.flush() hands it to the child, or raises BrokenPipeError
\* when the child has exited
WriteStream(t) ==
    /\ Top(t) = "w_io"
    /\ wr' = [wr EXCEPT ![t] = Append(@, [proc |-> server_process, text |-> arg[t],
                                          running |-> IsServerRunning])]
    /\ IF procs[server_process].state = "exited"
         THEN /\ stk' = Unwind(t)
              /\ reported' = Report(t)
              /\ procs' = procs
         ELSE /\ stk' = Goto(t, <<"w_release">>)
              /\ reported' = reported
              /\ procs' = [procs EXCEPT ![server_process].gotStop = @ \/ HasStopLine(arg[t])]
    /\ UNCHANGED << queueVars, dispVars, arg, idx, inputVars,
                    server_process, server_output_thread, relay, lock, compVars, apiCalls >>

\* _write_server, line 137: _server_input_lock.release()
WriteRelease(t) ==
    /\ Top(t) = "w_release"
    /\ lock' = FALSE
    /\ stk' = Return(t)
    /\ UNCHANGED << queueVars, dispVars, arg, idx, reported, wr, inputVars,
                    server_process, server_output_thread, procs, relay, compVars, apiCalls >>

\* stop_server, lines 249-251 and 258: the running check, then send('stop')
StopServerCheck(t) ==
    /\ Top(t) = "st_check"
    /\ IF IsServerRunning
         THEN /\ arg' = [arg EXCEPT ![t] = StopText]
              /\ stk' = Goto(t, <<"w_check", "st_wait">>)
              /\ reported' = reported
         ELSE /\ stk' = Return(t)
              /\ reported' = Say(t, "NotRunning")
              /\ arg' = arg
    /\ UNCHANGED << queueVars, dispVars, idx, wr, inputVars, serverVars, compVars, apiCalls >>

\* stop_server, line 253: _server_process.wait() returns once the child has exited
StopServerWait(t) ==
    /\ Top(t) = "st_wait"
    /\ procs[server_process].state = "exited"
    /\ stk' = Goto(t, <<"st_join">>)
    /\ UNCHANGED << queueVars, dispVars, arg, idx, reported, wr, inputVars, serverVars,
                    compVars, apiCalls >>

\* stop_server, line 255: _server_output_thread.join() returns once the relay has ended
StopServerJoin(t) ==
    /\ Top(t) = "st_join"
    /\ relay[server_output_thread] = "dead"
    /\ stk' = Goto(t, <<"st_done">>)
    /\ UNCHANGED << queueVars, dispVars, arg, idx, reported, wr, inputVars, serverVars,
                    compVars, apiCalls >>

\* stop_server, line 256: 'Server has stopped.', and the call returns
StopServerDone(t) ==
    /\ Top(t) = "st_done"
    /\ stk' = Return(t)
    /\ UNCHANGED << queueVars, dispVars, arg, idx, reported, wr, inputVars, serverVars,
                    compVars, apiCalls >>

\* ------------------------------------------------------ the child and its relay
\* the child exits because it was told to stop
ChildStops(p) ==
    /\ procs[p].state = "alive"
    /\ procs[p].gotStop
    /\ procs' = [procs EXCEPT ![p].state = "exited", ![p].stdout = "closed"]
    /\ UNCHANGED << queueVars, dispVars, callVars, inputVars, server_process,
                    server_output_thread, relay, lock, compVars, apiCalls >>

\* the child exits on its own
ChildExits(p) ==
    /\ procs[p].state = "alive"
    /\ ~procs[p].gotStop
    /\ procs' = [procs EXCEPT ![p].state = "exited", ![p].stdout = "closed"]
    /\ UNCHANGED << queueVars, dispVars, callVars, inputVars, server_process,
                    server_output_thread, relay, lock, compVars, apiCalls >>

\* the child closes its output stream and goes on running
ChildClosesOutput(p) ==
    /\ procs[p].state = "alive"
    /\ procs[p].stdout = "open"
    /\ procs' = [procs EXCEPT ![p].stdout = "closed"]
    /\ UNCHANGED << queueVars, dispVars, callVars, inputVars, server_process,
                    server_output_thread, relay, lock, compVars, apiCalls >>

\* _loop_server_output: the for loop over stdout ends at end of stream, and the
\* thread with it
RelayEnds(p) ==
    /\ relay[p] = "alive"
    /\ procs[p].stdout = "closed"
    /\ relay' = [relay EXCEPT ![p] = "dead"]
    /\ UNCHANGED << queueVars, dispVars, callVars, inputVars, server_process,
                    server_output_thread, procs, lock, compVars, apiCalls >>

\* ------------------------------------------------------------- event queue
\* the event a producer makes. History fields: by and src name the producer, k
\* numbers the firings of a job, n is the event's arrival number
MkEvent(tag, text, by, src, k) ==
    [tag |-> tag, text |-> text, by |-> by, src |-> src, k |-> k, n |-> nEnq + 1]

\* Queue.put: the event joins the back of the queue
Put(q, e) == Append(q, e)
\* a get that takes the event at the back of the queue
FrontNewest(q) == q[Len(q)]
\* Queue.get: the event at the front of the queue, and the queue without it
Front(q) == Head(q)
Rest(q) == Tail(q)

\* _event_handler_map.get(event_name): the handler registered for the event's type
HandlerOf(tag) ==
    CASE tag = "InputEvent" -> "_handle_input_event"
      [] tag = "CommandSequenceJobEvent" -> "_handle_command_sequence_job_event"
      [] tag = "DirectoryObserverFileChangeEvent" ->
             "_handle_directory_observer_file_change_event"
      [] tag = "ExitEvent" -> "_handle_exit_event"
      [] OTHER -> "None"

\* _handle_input_event, for a line that is no load command: the calls the
\* handler makes and the text it sends
InputPlan(text) ==
    LET line == RStrip(text)
        tokens == Split1(line)
        argline == IF Len(tokens) > 1 THEN tokens[2] ELSE <<>>
    IN  IF tokens = <<>> THEN [labels |-> <<>>, text |-> <<>>]
        ELSE IF tokens[1] = <<"start">> THEN [labels |-> <<"ss">>, text |-> <<>>]
        ELSE IF tokens[1] = <<"restart">>
            THEN [labels |-> <<"st_check", "ss">>, text |-> <<>>]
        ELSE IF tokens[1] = <<"echo">> THEN [labels |-> <<>>, text |-> <<>>]
        ELSE IF tokens[1] = <<"run">> THEN [labels |-> <<"run_call">>, text |-> argline]
        ELSE IF tokens[1] \in {<<"send">>, <<">">>}
            THEN [labels |-> <<"w_check">>, text |-> argline \o <<NL>>]
        ELSE [labels |-> <<"w_check">>, text |-> line \o <<NL>>]

\* the calls the handler of event e makes, and the text it sends
Plan(e) ==
    CASE e.tag = "InputEvent" -> InputPlan(e.text)
      [] e.tag = "CommandSequenceJobEvent" -> [labels |-> <<"w_check">>, text |-> e.text]
      [] e.tag = "DirectoryObserverFileChangeEvent" ->
             [labels |-> <<"lf_open">>, text |-> <<>>]
      [] e.tag = "ExitEvent" -> [labels |-> <<"ex_join_input">>, text |-> <<>>]

\* a dispatcher whose loop ends at an event that has no handler
DispatchUnknownFatal ==
    /\ Top("disp") = "get"
    /\ queue # <<>>
    /\ LET e == Front(queue) IN
        /\ queue' = Rest(queue)
        /\ nHandled' = nHandled + 1
        /\ cur' = e
        /\ handler' = HandlerOf(e.tag)
        /\ wr' = [wr EXCEPT !["disp"] = <<>>]
        /\ IF HandlerOf(e.tag) = "None"
             THEN /\ reported' = [reported EXCEPT !["disp"] = {"UnknownEvent"}]
                  /\ stk' = [stk EXCEPT !["disp"] = <<"crashed">>]
                  /\ arg' = arg
             ELSE /\ stk' = [stk EXCEPT !["disp"] = Plan(e).labels \o <<"ret">>]
                  /\ arg' = [arg EXCEPT !["disp"] = Plan(e).text]
                  /\ reported' = [reported EXCEPT !["disp"] = {}]
    /\ UNCHANGED << nEnq, stoppedNotices, idx, inputVars, serverVars, compVars, apiCalls >>

\* _loop_event_queue, lines 92-101: get an event, look its handler up, call it
Dispatch ==
    /\ Top("disp") = "get"
    /\ queue # <<>>
    /\ LET e == Front(queue) IN
        /\ queue' = Rest(queue)
        /\ nHandled' = nHandled + 1
        /\ cur' = e
        /\ handler' = HandlerOf(e.tag)
        /\ wr' = [wr EXCEPT !["disp"] = <<>>]
        /\ IF HandlerOf(e.tag) = "None"
             THEN /\ reported' = [reported EXCEPT !["disp"] = {"UnknownEvent"}]
                  /\ UNCHANGED << stk, arg >>
             ELSE /\ stk' = [stk EXCEPT !["disp"] = Plan(e).labels \o <<"ret">>]
                  /\ arg' = [arg EXCEPT !["disp"] = Plan(e).text]
                  /\ reported' = [reported EXCEPT !["disp"] = {}]
    /\ UNCHANGED << nEnq, stoppedNotices, idx, inputVars, serverVars, compVars, apiCalls >>

\* _loop_event_queue, line 101: the handler returned nothing, the loop goes on
HandlerReturns ==
    /\ Top("disp") = "ret"
    /\ stk' = [stk EXCEPT !["disp"] = <<"get">>]
    /\ cur' = NoEvent
    /\ handler' = "None"
    /\ reported' = [reported EXCEPT !["disp"] = {}]
    /\ wr' = [wr EXCEPT !["disp"] = <<>>]
    /\ arg' = [arg EXCEPT !["disp"] = <<>>]
    /\ UNCHANGED << queueVars, nHandled, stoppedNotices, idx, inputVars, serverVars,
                    compVars, apiCalls >>

\* load_file, lines 277-278: open(path) fails, or the file's text is piped
LoadFile(t) ==
    /\ Top(t) = "lf_open"
    /\ \/ /\ stk' = Unwind(t)
          /\ reported' = Report(t)
          /\ arg' = arg
       \/ \E c \in FileContents :
             /\ arg' = [arg EXCEPT ![t] = c]
             /\ stk' = Goto(t, <<"w_check">>)
             /\ reported' = reported
    /\ UNCHANGED << queueVars, dispVars, idx, wr, inputVars, serverVars, compVars, apiCalls >>

\* _loop_event_queue, lines 104-110, for an exception whose args are empty: the
\* error notice is printed, e.args[0] raises IndexError inside the except block,
\* and the dispatcher's thread ends with it
Crash(t) == [stk EXCEPT ![t] = IF t = "disp" THEN <<"crashed">> ELSE <<"dead">>]

\* the commands a procedure yields
ProcedureCommands == { <<"p">> }

\* run, lines 294-312: with no argument, tokens[0] raises IndexError; else the
\* procedure is not found; or it yields a command, which is sent; or it raises an
\* exception, one that carries a message or one that carries nothing
RunProcedure(t) ==
    /\ Top(t) = "run_call"
    /\ IF arg[t] = <<>>
         THEN /\ stk' = Unwind(t)
              /\ reported' = Report(t)
              /\ arg' = arg
         ELSE \/ /\ stk' = Return(t)
                 /\ reported' = Say(t, "NoSuchProcedure")
                 /\ arg' = arg
              \/ \E c \in ProcedureCommands :
                    /\ arg' = [arg EXCEPT ![t] = c \o <<NL>>]
                    /\ stk' = Goto(t, <<"w_check">>)
                    /\ reported' = reported
              \/ /\ stk' = Unwind(t)
                 /\ reported' = Report(t)
                 /\ arg' = arg
              \/ /\ stk' = Crash(t)
                 /\ reported' = Report(t)
                 /\ arg' = arg
    /\ UNCHANGED << queueVars, dispVars, idx, wr, inputVars, serverVars, compVars, apiCalls >>

\* ------------------------------------------------------------- exit handler
\* _handle_exit_event, line 167: _input_thread.join() returns once the reader has ended
ExitJoinInput ==
    /\ Top("disp") = "ex_join_input"
    /\ inputThread = "dead"
    /\ stk' = Goto("disp", <<"ex_check">>)
    /\ UNCHANGED << queueVars, dispVars, arg, idx, reported, wr, inputVars, serverVars,
                    compVars, apiCalls >>

\* _handle_exit_event, lines 170-171: stop the server if it is running
ExitStopServer ==
    /\ Top("disp") = "ex_check"
    /\ stk' = IF IsServerRunning
                THEN Goto("disp", <<"st_check", "ex_job_stop">>)
                ELSE Goto("disp", <<"ex_job_stop">>)
    /\ idx' = [idx EXCEPT !["disp"] = 1]
    /\ UNCHANGED << queueVars, dispVars, arg, reported, wr, inputVars, serverVars,
                    compVars, apiCalls >>

\* _handle_exit_event, lines 176-177: the next job, if any, is told to stop
ExitJobStop ==
    /\ Top("disp") = "ex_job_stop"
    /\ IF idx["disp"] > Len(jobs)
         THEN /\ stk' = Goto("disp", <<"ex_obs_stop">>)
              /\ idx' = [idx EXCEPT !["disp"] = 1]
              /\ jobs' = jobs
         ELSE /\ jobs' = [jobs EXCEPT ![idx["disp"]].stop_event = TRUE]
              /\ stk' = Goto("disp", <<"ex_job_join">>)
              /\ idx' = idx
    /\ UNCHANGED << queueVars, dispVars, arg, reported, wr, inputVars, serverVars,
                    observers, apiCalls >>

\* a join that returns after a while although the job's thread is still running
ExitJobJoinTimeout ==
    /\ Top("disp") = "ex_job_join"
    /\ jobs[idx["disp"]].thread # "new"
    /\ stk' = Goto("disp", <<"ex_job_stop">>)
    /\ idx' = [idx EXCEPT !["disp"] = @ + 1]
    /\ UNCHANGED << queueVars, dispVars, arg, reported, wr, inputVars, serverVars, compVars,
                    apiCalls >>

\* an exit handler that goes on without joining the job
ExitJobJoinNoWait ==
    /\ Top("disp") = "ex_job_join"
    /\ stk' = Goto("disp", <<"ex_job_stop">>)
    /\ idx' = [idx EXCEPT !["disp"] = @ + 1]
    /\ UNCHANGED << queueVars, dispVars, arg, reported, wr, inputVars, serverVars, compVars,
                    apiCalls >>

\* _handle_exit_event, line 178: job.join() raises RuntimeError on a thread never
\* started, and returns once a started thread has ended
ExitJobJoin ==
    /\ Top("disp") = "ex_job_join"
    /\ \/ /\ jobs[idx["disp"]].thread = "new"
          /\ stk' = Unwind("disp")
          /\ reported' = Report("disp")
          /\ idx' = idx
       \/ /\ jobs[idx["disp"]].thread = "dead"
          /\ stk' = Goto("disp", <<"ex_job_stop">>)
          /\ idx' = [idx EXCEPT !["disp"] = @ + 1]
          /\ reported' = reported
    /\ UNCHANGED << queueVars, dispVars, arg, wr, inputVars, serverVars, compVars, apiCalls >>

\* _handle_exit_event, lines 183-184: the next observer, if any, is told to stop
ExitObserverStop ==
    /\ Top("disp") = "ex_obs_stop"
    /\ IF idx["disp"] > Len(observers)
         THEN /\ stk' = Goto("disp", <<"ex_return">>)
              /\ observers' = observers
         ELSE /\ observers' = [observers EXCEPT ![idx["disp"]].stopped = TRUE]
              /\ stk' = Goto("disp", <<"ex_obs_join">>)
    /\ UNCHANGED << queueVars, dispVars, arg, idx, reported, wr, inputVars, serverVars,
                    jobs, apiCalls >>

\* _handle_exit_event, line 185: observer.join()
ExitObserverJoin ==
    /\ Top("disp") = "ex_obs_join"
    /\ \/ /\ observers[idx["disp"]].thread = "new"
          /\ stk' = Unwind("disp")
          /\ reported' = Report("disp")
          /\ idx' = idx
       \/ /\ observers[idx["disp"]].thread = "dead"
          /\ stk' = Goto("disp", <<"ex_obs_stop">>)
          /\ idx' = [idx EXCEPT !["disp"] = @ + 1]
          /\ reported' = reported
    /\ UNCHANGED << queueVars, dispVars, arg, wr, inputVars, serverVars, compVars, apiCalls >>

\* _handle_exit_event, line 188, and _loop_event_queue, lines 101-112: the handler
\* returns True, the loop breaks, 'Wrapper has stopped.' is printed
ExitReturns ==
    /\ Top("disp") = "ex_return"
    /\ stk' = [stk EXCEPT !["disp"] = <<"done">>]
    /\ stoppedNotices' = stoppedNotices + 1
    /\ UNCHANGED << queueVars, nHandled, cur, handler, arg, idx, reported, wr, inputVars,
                    serverVars, compVars, apiCalls >>

\* ------------------------------------------------------------ console reader
\* a reader that does not trim the line it reads
ReadLineUntrimmed(line, n) ==
    /\ inputThread = "alive"
    /\ nRead < n
    /\ nRead' = nRead + 1
    /\ nEnq' = nEnq + 1
    /\ IF line \in EXIT_TOKENS
         THEN /\ queue' = Put(queue, MkEvent("ExitEvent", <<>>, "input", 0, 0))
              /\ inputThread' = "dead"
         ELSE /\ queue' = Put(queue, MkEvent("InputEvent", line, "input", 0, 0))
              /\ inputThread' = inputThread
    /\ UNCHANGED << dispVars, callVars, serverVars, compVars, apiCalls >>

\* _loop_input, lines 116-121: one line is read and trimmed; an exit token calls
\* exit() and ends the thread, any other line becomes an InputEvent; the operator
\* types at most n lines
ReadLineUpTo(line, n) ==
    LET inp == Strip(line) IN
    /\ inputThread = "alive"
    /\ nRead < n
    /\ nRead' = nRead + 1
    /\ nEnq' = nEnq + 1
    /\ IF inp \in EXIT_TOKENS
         THEN /\ queue' = Put(queue, MkEvent("ExitEvent", <<>>, "input", 0, 0))
              /\ inputThread' = "dead"
         ELSE /\ queue' = Put(queue, MkEvent("InputEvent", inp, "input", 0, 0))
              /\ inputThread' = inputThread
    /\ UNCHANGED << dispVars, callVars, serverVars, compVars, apiCalls >>

\* the same, for an operator who types at most MaxInputs lines
ReadLine(line) == ReadLineUpTo(line, MaxInputs)

InputStep == \E line \in ConsoleLines : ReadLine(line)

\* ------------------------------------------------------------------- jobs
\* _loop_interval, line 53: the loop ends once the stop event is set
JobCheck(j) ==
    /\ jobs[j].thread = "alive"
    /\ jobs[j].pc = "check"
    /\ jobs' = IF jobs[j].stop_event
                 THEN [jobs EXCEPT ![j].thread = "dead"]
                 ELSE [jobs EXCEPT ![j].pc = "put"]
    /\ UNCHANGED << queueVars, dispVars, callVars, inputVars, serverVars, observers,
                    apiCalls >>

\* an index that skips a group
NextIndexSkip(job) == (job.index + 2) % job.length
\* _loop_interval, line 55: the index after a firing
NextIndex(job) == (job.index + 1) % job.length

\* _loop_interval, line 54: the text of the group the job is at
CurrentText(job) == job.texts[job.index + 1]

\* _loop_interval, lines 54-55: the event of the current group is put, the index
\* moves on
JobFire(j) ==
    /\ jobs[j].thread = "alive"
    /\ jobs[j].pc = "put"
    /\ queue' = Put(queue, MkEvent("CommandSequenceJobEvent", CurrentText(jobs[j]),
                                   "job", j, jobs[j].fired))
    /\ nEnq' = nEnq + 1
    /\ jobs' = [jobs EXCEPT ![j].index = NextIndex(jobs[j]),
                            ![j].fired = @ + 1,
                            ![j].pc = "wait"]
    /\ UNCHANGED << dispVars, callVars, inputVars, serverVars, observers, apiCalls >>

\* _loop_interval, line 56: _stop_event.wait(delay) returns when the event is set
\* or the delay is over; after budget firings the delay outlasts the run
JobWait(j) ==
    /\ jobs[j].thread = "alive"
    /\ jobs[j].pc = "wait"
    /\ jobs[j].stop_event \/ jobs[j].fired < jobs[j].budget
    /\ jobs' = [jobs EXCEPT ![j].pc = "check"]
    /\ UNCHANGED << queueVars, dispVars, callVars, inputVars, serverVars, observers,
                    apiCalls >>

\* --------------------------------------------------------------- observers
\* CustomFileSystemEventHandler.on_created / on_modified: a running observer
\* reports a file
ObserverFires(o) ==
    /\ observers[o].thread = "alive"
    /\ observers[o].fired < MaxFileEvents
    /\ queue' = Put(queue, MkEvent("DirectoryObserverFileChangeEvent", <<"f">>,
                                   "observer", o, 0))
    /\ nEnq' = nEnq + 1
    /\ observers' = [observers EXCEPT ![o].fired = @ + 1]
    /\ UNCHANGED << dispVars, callVars, inputVars, serverVars, jobs, apiCalls >>

\* the observer's thread ends once it has been told to stop
ObserverEnds(o) ==
    /\ observers[o].thread = "alive"
    /\ observers[o].stopped
    /\ observers' = [observers EXCEPT ![o].thread = "dead"]
    /\ UNCHANGED << queueVars, dispVars, callVars, inputVars, serverVars, jobs, apiCalls >>

\* ------------------------------------------------------- MCServerWrapper.start
\* start, line 226: _input_thread.start()
MainStartInput ==
    /\ Top("main") = "m_start_input"
    /\ inputThread' = "alive"
    /\ stk' = Goto("main", <<"m_start_disp">>)
    /\ UNCHANGED << queueVars, dispVars, arg, idx, reported, wr, nRead, serverVars,
                    compVars, apiCalls >>

\* start, lines 229-233: where start() goes on after the first n jobs
AfterJobs(n) == IF n < Len(jobs) THEN "m_start_jobs" ELSE "m_join"
\* and after the first n observers
AfterObservers(n) == IF n < Len(observers) THEN "m_start_obs" ELSE AfterJobs(0)

\* start, line 227: _event_queue_thread.start()
MainStartDispatcher ==
    /\ Top("main") = "m_start_disp"
    /\ stk' = [stk EXCEPT !["main"] = <<AfterObservers(0)>>, !["disp"] = <<"get">>]
    /\ idx' = [idx EXCEPT !["main"] = 1]
    /\ UNCHANGED << queueVars, dispVars, arg, reported, wr, inputVars, serverVars,
                    compVars, apiCalls >>

\* start, lines 229-230: the next observer is started
MainStartObserver ==
    /\ Top("main") = "m_start_obs"
    /\ observers' = [observers EXCEPT ![idx["main"]].thread = "alive"]
    /\ stk' = Goto("main", <<AfterObservers(idx["main"])>>)
    /\ idx' = [idx EXCEPT !["main"] = IF @ < Len(observers) THEN @ + 1 ELSE 1]
    /\ UNCHANGED << queueVars, dispVars, arg, reported, wr, inputVars, serverVars, jobs,
                    apiCalls >>

\* start, lines 232-233: the next job is started
MainStartJob ==
    /\ Top("main") = "m_start_jobs"
    /\ jobs' = [jobs EXCEPT ![idx["main"]].thread = "alive"]
    /\ stk' = Goto("main", <<AfterJobs(idx["main"])>>)
    /\ idx' = [idx EXCEPT !["main"] = IF @ < Len(jobs) THEN @ + 1 ELSE 1]
    /\ UNCHANGED << queueVars, dispVars, arg, reported, wr, inputVars, serverVars,
                    observers, apiCalls >>

\* join: _event_queue_thread.join() returns once the dispatcher's thread has ended
MainJoin ==
    /\ Top("main") = "m_join"
    /\ Top("disp") \in {"done", "crashed"}
    /\ stk' = Goto("main", <<"end">>)
    /\ UNCHANGED << queueVars, dispVars, arg, idx, reported, wr, inputVars, serverVars,
                    compVars, apiCalls >>

\* ------------------------------------------------- a caller outside the wrapper
\* exit(): an ExitEvent is put on the queue
ApiExit ==
    /\ Top("api") = "idle"
    /\ Top("disp") # "new"
    /\ apiCalls < MaxApiCalls
    /\ apiCalls' = apiCalls + 1
    /\ queue' = Put(queue, MkEvent("ExitEvent", <<>>, "api", 0, 0))
    /\ nEnq' = nEnq + 1
    /\ UNCHANGED << dispVars, callVars, inputVars, serverVars, compVars >>

\* a component that was given the queue puts an event of a type that has no
\* handler (an instance of the base class Event)
PutUnknown ==
    /\ Top("api") = "idle"
    /\ Top("disp") # "new"
    /\ apiCalls < MaxApiCalls
    /\ apiCalls' = apiCalls + 1
    /\ queue' = Put(queue, MkEvent("Event", <<>>, "api", 0, 0))
    /\ nEnq' = nEnq + 1
    /\ UNCHANGED << dispVars, callVars, inputVars, serverVars, compVars >>

\* send(text): pipe(text + '\n')
ApiSend ==
    /\ Top("api") = "idle"
    /\ Top("disp") # "new"
    /\ apiCalls < MaxApiCalls
    /\ apiCalls' = apiCalls + 1
    /\ arg' = [arg EXCEPT !["api"] = <<"p", NL>>]
    /\ stk' = [stk EXCEPT !["api"] = <<"w_check", "idle">>]
    /\ reported' = [reported EXCEPT !["api"] = {}]
    /\ wr' = [wr EXCEPT !["api"] = <<>>]
    /\ UNCHANGED << queueVars, dispVars, idx, inputVars, serverVars, compVars >>

\* ------------------------------------------------------------ specifications
\* one step of thread t inside the supervisor's methods
SupervisorStep(t) ==
    \/ StartServer(t)
    \/ WriteCheck(t)
    \/ WriteAcquire(t)
    \/ WriteStream(t)
    \/ WriteRelease(t)
    \/ StopServerCheck(t)
    \/ StopServerWait(t)
    \/ StopServerJoin(t)
    \/ StopServerDone(t)

DispatcherStep ==
    \/ Dispatch
    \/ HandlerReturns
    \/ ExitJoinInput
    \/ ExitStopServer
    \/ ExitJobStop
    \/ ExitObserverStop
    \/ ExitReturns

MainStep ==
    \/ MainStartInput
    \/ MainStartDispatcher
    \/ MainJoin

JobStep ==
    \/ MainStartJob
    \/ ExitJobJoin
    \/ \E j \in 1..Len(jobs) : JobCheck(j) \/ JobFire(j) \/ JobWait(j)

ObserverStep ==
    \/ MainStartObserver
    \/ ExitObserverJoin
    \/ LoadFile("disp")
    \/ \E o \in 1..Len(observers) : ObserverFires(o) \/ ObserverEnds(o)

\* what the child may do by itself
ChildActs == \E p \in 1..MaxSpawns : ChildExits(p) \/ ChildClosesOutput(p)
\* what follows from the program's own steps
ChildReacts == \E p \in 1..MaxSpawns : ChildStops(p) \/ RelayEnds(p)

ProgramStep ==
    \/ \E t \in {"main", "disp"} : SupervisorStep(t)
    \/ DispatcherStep
    \/ MainStep
    \/ ChildReacts

\* the wrapper with the default configuration (no jobs, no observers)
NextCore == ProgramStep \/ InputStep \/ ChildActs

\* the wrapper with one job and one observer
Next == NextCore \/ JobStep \/ ObserverStep

\* the wrapper with one job, an operator who types the exit token, and a child
\* that does nothing by itself
NextJob == ProgramStep \/ ReadLine(<<"x">>) \/ JobStep

\* the default configuration, and a thread that calls exit() and send()
NextApi == NextCore \/ ApiExit \/ ApiSend \/ SupervisorStep("api")

\* the wrapper with one job and one observer, an operator who types the exit
\* token, and a thread that calls exit()
NextShutdown ==
    ProgramStep \/ ChildActs \/ ReadLine(<<"x">>) \/ JobStep \/ ObserverStep \/ ApiExit

\* the lines of an operator who runs a procedure
RunLines == { <<"run", SP, "proc">>, <<"run">>, <<"say", SP, "hi">>, <<"x">> }

\* the default configuration, an operator who runs a procedure, and a thread
\* that calls exit() and send()
NextRun ==
    \/ ProgramStep
    \/ ChildActs
    \/ \E line \in RunLines : ReadLine(line)
    \/ RunProcedure("disp")
    \/ ApiExit
    \/ ApiSend
    \/ SupervisorStep("api")

\* the default configuration and an operator who types one line more
NextReader ==
    \/ ProgramStep
    \/ \E line \in ConsoleLines : ReadLineUpTo(line, MaxReaderLines)

\* the default configuration, and a component that puts an event of a type that
\* has no handler
NextUnknown == NextCore \/ PutUnknown

Spec == Init /\ [][Next]_vars
CoreSpec == InitCore /\ [][NextCore]_vars
JobSpec == InitJob /\ [][NextJob]_vars
ApiSpec == InitCore /\ [][NextApi]_vars
ShutdownSpec == Init /\ [][NextShutdown]_vars
RunSpec == InitCore /\ [][NextRun]_vars
ReaderSpec == InitCore /\ [][NextReader]_vars
UnknownSpec == InitCore /\ [][NextUnknown]_vars

\* ------------------------------------------------------------------ properties
\* the dispatcher's loop has ended
LoopEnded == Top("disp") = "done"

\* C1 (as amended): every event the dispatcher takes is the oldest one not yet
\* taken, and it gets one call of the handler registered for its type: the
\* events still queued are the arrivals nHandled+1, nHandled+2, ... in order, so
\* the events taken so far are the arrivals 1..nHandled, each taken once.
C1_FifoExactlyOnce ==
    /\ nEnq = nHandled + Len(queue)
    /\ \A i \in 1..Len(queue) : queue[i].n = nHandled + i
    /\ cur # NoEvent => /\ cur.n = nHandled
                        /\ handler = HandlerOf(cur.tag)
                        /\ handler # "None"

\* C1, a case: the loop has ended after handling events of two producers in
\* arrival order, and an event that arrived behind the Exit is still queued
C1_HandledInOrderThenEnded ==
    /\ LoopEnded
    /\ nHandled >= 2
    /\ queue # <<>>
    /\ cur.tag = "ExitEvent"

\* C1 as stated: every event put on the queue gets its handler call, so once the
\* loop has ended none is left unhandled
C1_EveryEventHandled == LoopEnded => nHandled = nEnq

\* every job before the n-th has been told to stop and its thread has ended
JobsJoinedBefore(n) ==
    \A j \in 1..Len(jobs) : j < n => jobs[j].stop_event /\ jobs[j].thread = "dead"
\* every observer before the n-th has been told to stop and its thread has ended
ObserversJoinedBefore(n) ==
    \A o \in 1..Len(observers) : o < n => observers[o].stopped /\ observers[o].thread = "dead"

WrapperStep == ProgramStep \/ SupervisorStep("api")

\* an Exit is on the queue or in the dispatcher's hands
ExitPut ==
    \/ \E i \in 1..Len(queue) : queue[i].tag = "ExitEvent"
    \/ cur.tag = "ExitEvent"

\* C3 as stated: an Exit put on the queue ends the loop and the stopped notice
\* is printed, with no more than fair scheduling and a child that obeys "stop":
\* so when an Exit has been put and no thread of the wrapper can take a step,
\* the loop has ended and the notice has been printed once.
C3_ExitEndsLoop ==
    (ExitPut /\ ~ENABLED WrapperStep) => (LoopEnded /\ stoppedNotices = 1)

\* C4 as stated: at most one child spawned by the supervisor is alive
C4_AtMostOneChildAlive == Cardinality(Alive) <= 1

\* the threads between acquire and release in _write_server
Writers == {t \in CallThreads : Top(t) \in {"w_io", "w_release"}}

\* C5: at most one thread is between acquiring and releasing the input lock, and
\* the lock is held while one is, so the write and flush of one call never
\* overlap those of another.
C5_OneWriterAtATime ==
    /\ Cardinality(Writers) <= 1
    /\ Writers # {} => lock

\* C5, a case: a thread is writing while another waits at the acquire
C5_WriterAndWaiter ==
    /\ Writers # {}
    /\ \E t \in CallThreads \ Writers : Top(t) = "w_acquire"

\* C6 as stated: no write reaches the child's input stream when the server is
\* not running, whenever it stopped running
C6_NoWriteUnlessRunning ==
    \A t \in CallThreads : \A i \in 1..Len(wr[t]) : wr[t][i].running

InStop(t) == \E i \in 1..Len(stk[t]) : stk[t][i] \in {"st_wait", "st_join"}

\* C8 as stated: the value of _is_server_running changes only in a start_server
\* step or while a stop_server is in progress
C8_RunningFollowsLifecycle ==
    [][ IsServerRunning' # IsServerRunning
          => \E t \in CallThreads :
                \/ Top(t) = "ss" /\ stk'[t] # stk[t]
                \/ InStop(t)
      ]_vars

\* the writes of the text "stop\n" among ws
StopWrites(ws) == SelectSeq(ws, LAMBDA w : w.text = StopText)

\* C9 as stated: a stop_server that found the server running and reaches
\* 'Server has stopped.' has written "stop" once, the child has exited, the
\* relay has ended and the server is not running; and a stop_server that reports
\* the not-running error has done none of that
C9_StopWritesOnce ==
    \A t \in CallThreads :
        Top(t) = "st_done"
           => /\ Len(StopWrites(wr[t])) = 1
              /\ procs[server_process].state = "exited"
              /\ ~IsServerRunning
              /\ "NotRunning" \notin reported[t]

\* the events on the queue and the one in the dispatcher's hands
EventsInFlight == {queue[i] : i \in 1..Len(queue)} \cup {cur}

\* the text of group g (counted from 0) of a job, computed from its configuration
GroupText(job, g) == JoinLines(job.groups[g + 1]) \o <<NL>>

\* C10: the event of a job's k-th firing (k = 0, 1, ...) carries the text of
\* group (s + k) mod N, for N the number of groups and s the configured starting
\* index, and the job's index is always in 0..N-1.
C10_JobCyclesGroups ==
    /\ \A e \in EventsInFlight :
          e.tag = "CommandSequenceJobEvent"
             => e.text = GroupText(jobs[e.src], (jobs[e.src].start + e.k) % jobs[e.src].length)
    /\ \A j \in 1..Len(jobs) :
          /\ jobs[j].index \in 0..(jobs[j].length - 1)
          /\ jobs[j].index = (jobs[j].start + jobs[j].fired) % jobs[j].length

\* C10, a case: a job of three groups configured with a starting index outside
\* 0..2 has gone round, and the event of its fourth firing is in flight
C10_JobWrappedAround ==
    \E e \in EventsInFlight :
        /\ e.tag = "CommandSequenceJobEvent"
        /\ jobs[e.src].length = 3
        /\ jobs[e.src].start \notin 0..2
        /\ e.k = 3

\* the Exit handler's job.stop() and job.join() of job j have both returned
JobJoined(j) ==
    \/ Top("disp") \in {"ex_job_stop", "ex_job_join"} /\ idx["disp"] > j
    \/ Top("disp") \in {"ex_obs_stop", "ex_obs_join", "ex_return", "done"}

\* the events of job j on the queue q
JobEventsOn(q, j) ==
    {q[i] : i \in {i \in 1..Len(q) : q[i].tag = "CommandSequenceJobEvent" /\ q[i].src = j}}

\* C11: once stop() and then join() of a job have returned, its thread has ended
\* and the job puts no further event on the queue, wherever its loop was when
\* stop() was called.
C11_NoFiringAfterJoin ==
    [][ \A j \in 1..Len(jobs) :
          JobJoined(j)
             => /\ jobs[j].stop_event
                /\ jobs[j].thread = "dead"
                /\ jobs'[j].fired = jobs[j].fired
                /\ JobEventsOn(queue', j) \subseteq JobEventsOn(queue, j)
      ]_vars

\* C11, a case: a job that has fired more than once was stopped and joined, the
\* loop has ended, and an event the job put after the Exit was put is still on
\* the queue
C11_JoinedAfterFiring ==
    /\ JobJoined(1)
    /\ LoopEnded
    /\ jobs[1].fired >= 2
    /\ JobEventsOn(queue, 1) # {}

\* C12 as stated: after a handler's failure has been logged the dispatcher is
\* back at the queue for the next event, whatever the exception carries: its
\* thread never ends with a handler failure
C12_FailureIsolated ==
    /\ Top("disp") # "crashed"
    /\ "HandlerError" \in reported["disp"] => Top("disp") = "get"

\* C13 as stated: once the loop has ended and the stopped notice is out, the
\* console reader, every job thread, every observer thread and every relay thread
\* have ended, and no child is alive
C13_NothingLeftRunning ==
    (LoopEnded /\ stoppedNotices >= 1)
       => /\ inputThread = "dead"
          /\ \A j \in 1..Len(jobs) : jobs[j].thread = "dead"
          /\ \A o \in 1..Len(observers) : observers[o].thread = "dead"
          /\ \A p \in 1..MaxSpawns : relay[p] # "alive"
          /\ Alive = {}

\* the console reader has read an exit token
ExitTokenRead == inputThread = "dead"

\* an Exit is still waiting on the queue
ExitWaiting == \E i \in 1..Len(queue) : queue[i].tag = "ExitEvent"

\* C14 as stated, reading "no further text" as no text but the shutdown's own
\* "stop": once the exit token has been read, the Exit handler writes nothing but
\* "stop", no event handled after the Exit writes anything, and when the
\* wrapper's threads can take no further step the loop has ended and the stopped
\* notice has been printed
C14_ExitTokenEndsRun ==
    ExitTokenRead
       => /\ cur.tag = "ExitEvent"
               => \A i \in 1..Len(wr["disp"]) : wr["disp"][i].text = StopText
          /\ (cur.tag # "ExitEvent" /\ ~ExitWaiting) => wr["disp"] = <<>>
          /\ ~ENABLED ProgramStep => (LoopEnded /\ stoppedNotices = 1)

\* the text ends with a newline
EndsWithNewline(text) == text # <<>> /\ text[Len(text)] = NL

\* C15 as stated: every text written to the child's input ends with a newline
C15_WritesEndWithNewline ==
    \A t \in CallThreads : \A i \in 1..Len(wr[t]) : EndsWithNewline(wr[t][i].text)

\* the dispatcher's thread has left its loop, by the break or by an exception
DispatcherEnded == Top("disp") \in {"done", "crashed"}

\* C16 as stated: the dispatcher leaves its loop only when the Exit handler
\* returns the stop signal, never by another handler, an unknown event or a
\* handler failure; and the stopped notice is printed once, when the loop ends
C16_OnlyExitEndsLoop ==
    [][ /\ (DispatcherEnded' /\ ~DispatcherEnded)
            => /\ cur.tag = "ExitEvent"
               /\ Top("disp") = "ex_return"
               /\ stoppedNotices' = 1
        /\ stoppedNotices' # stoppedNotices
            => /\ stoppedNotices = 0
               /\ LoopEnded' /\ ~LoopEnded
      ]_vars

\* the last event of a nonempty queue
LastPut(q) == q[Len(q)]

UnknownAtFront ==
    /\ Top("disp") = "get"
    /\ queue # <<>>
    /\ HandlerOf(Front(queue).tag) = "None"

\* C18: when the dispatcher takes an event whose type has no handler, it calls no
\* handler, prints the warning, writes nothing, leaves the server, the reader,
\* the jobs and the observers as they are, and is back at the queue for the next
\* event.
C18_UnknownEventDiscarded ==
    [][ (UnknownAtFront /\ nHandled' # nHandled)
           => /\ handler' = "None"
              /\ "UnknownEvent" \in reported'["disp"]
              /\ queue' = Rest(queue)
              /\ Top("disp")' = "get"
              /\ wr'["disp"] = <<>>
              /\ UNCHANGED << serverVars, inputVars, compVars, stoppedNotices >>
      ]_vars

\* C18, a case: an event with no handler was discarded with the warning while
\* the console's event waits behind it, and the dispatcher is back at the queue
C18_DiscardedAndGoingOn ==
    /\ cur.tag = "Event"
    /\ "UnknownEvent" \in reported["disp"]
    /\ Top("disp") = "get"
    /\ queue # <<>>
    /\ ENABLED Dispatch

\* C19 as stated: the input lock is held only while a thread is between the
\* acquire and the release of a write; after a write has ended, however it ended,
\* the lock is free
C19_LockFreeAfterWrite == lock => Writers # {}

\* C20 as stated: the Exit handler tells a job or an observer to stop, and joins
\* it, only once start() has started its thread; so none is stopped before it is
\* started, joined unstarted, or started after the shutdown
C20_StoppedOnlyOnceStarted ==
    /\ \A j \in 1..Len(jobs) : jobs[j].stop_event => jobs[j].thread # "new"
    /\ \A o \in 1..Len(observers) : observers[o].stopped => observers[o].thread # "new"
    /\ LoopEnded => Top("main") \notin {"m_start_obs", "m_start_jobs"}

====
